---- MODULE Spec2Model ----
(***************************************************************************)
(* Model of pyblock/algorithm/time_evolution.py: the ExpoApply sweep       *)
(* engine (imaginary time evolution of an MPS, tangent space approach).    *)
(*                                                                         *)
(* State: the fields of one ExpoApply object, the frame of a running       *)
(* solve() call and of its current sweep(), and a log of the calls the     *)
(* last blocking step made to its collaborators (contractor, environment). *)
(* Tensors are abstract: a tensor is its site tags plus a "blocks" part    *)
(* that records which source variable produced it, in which local update,  *)
(* and its squared norm as a reduced fraction.                             *)
(***************************************************************************)
EXTENDS Integers, Sequences, FiniteSets

\* ------------------------------------------------------------------ bounds
MaxSites == 3
MaxSweeps == 2

\* beta of the ExpoApply object: a float, kept as an exact fraction
\* <<num, den>> in lowest terms with den > 0 (3 is <<3, 1>>, so that
\* beta / 2 = 3/2 is not an integer).
Betas == {<<3, 1>>}
\* bond_dims argument of __init__: an int or a list of ints.
BondDimInputs == {<<"int", 7>>, <<"list", <<5, 6>> >>}
\* What the contractor can answer to one forward expo_apply followed by one
\* density matrix split: energy, normsq of the propagated state, and the
\* discarded weight (less than normsq).
Outcomes == {[energy |-> -1, normsq |-> 2, error |-> 0],
             [energy |-> -2, normsq |-> 3, error |-> 1]}
\* Squared norm of the bond factor a compensating expo_apply returns (one
\* value, not 1, so that the compensation shows in the neighbour's norm).
BackNormSqs == {2}

\* ------------------------------------------------------------------ state
VARIABLES
    n_sites,          \* self.n_sites
    dot,              \* self.dot
    center,           \* self.center
    bond_dims,        \* self.bond_dims
    beta,             \* self.beta
    rebuild,          \* self.rebuild
    canonical_form,   \* self.canonical_form, site i at position i + 1
    energies,         \* self.energies
    normsqs,          \* self.normsqs
    errors,           \* self.errors
    fwd_attr,         \* self.forward ("unset" until a solve() returns)
    ket,              \* self._k : site -> tensor
    bra,              \* self._b : site -> tensor
    eff_ham,          \* self.eff_ham : the MovingEnvironment, or unbuilt
    mps,              \* self.mps : the public snapshot
    pc,               \* position of the running solve()
    frame,            \* arguments and locals of the running solve()
    sw,               \* locals of the running sweep()
    ulog,             \* collaborator calls of the last blocking step
    clock,            \* number of local updates started so far
    bond_dims_arg,    \* history: the bond_dims argument of __init__
    ham_ctr,          \* the tensors of self._h have a contractor (not None)
    constructed,      \* history: number of construct_envs() calls so far
    switched          \* history: solve() has switched this object to one-dot

vars == <<n_sites, dot, center, bond_dims, beta, rebuild, canonical_form,
          energies, normsqs, errors, fwd_attr, ket, bra, eff_ham, mps,
          pc, frame, sw, ulog, clock, bond_dims_arg, ham_ctr, constructed, switched>>

\* ---------------------------------------------------------------- helpers
Sites == 0 .. (n_sites - 1)

Min(a, b) == IF a < b THEN a ELSE b
Max(a, b) == IF a > b THEN a ELSE b

RECURSIVE Gcd(_, _)
Gcd(a, b) == IF b = 0 THEN a ELSE Gcd(b, a % b)

\* A squared norm or a step num / den as a reduced fraction (den > 0).
Frac(num, den) == LET g == Gcd(num, den) IN <<num \div g, den \div g>>

\* -beta: the step of a compensating expo_apply.
Minus(s) == <<0 - s[1], s[2]>>

\* ['x'] * k
Repeat(x, k) == [j \in 1 .. k |-> x]

\* list.count(x) and list.index(x) (0-based; the list contains x)
Count(s, x) == Cardinality({j \in 1 .. Len(s) : s[j] = x})
Index(s, x) == (CHOOSE j \in 1 .. Len(s) : s[j] = x /\ \A m \in 1 .. (j - 1) : s[m] # x) - 1

\* s[lo:hi] = repl, for 0 <= lo <= hi <= len(s)
SliceAssign(s, lo, hi, repl) == SubSeq(s, 1, lo) \o repl \o SubSeq(s, hi + 1, Len(s))

\* max(list) of a non-empty list
RECURSIVE MaxOf(_)
MaxOf(s) == IF Len(s) = 1 THEN s[1] ELSE Max(s[1], MaxOf(Tail(s)))

\* list[-1]
Last(s) == s[Len(s)]

\* ---------------------------------------------------------------- tensors
\* The blocks of a tensor: the source variable that produced them, the local
\* update (clock value) that produced them, and their squared norm.
Blk(var, at, nsq) == [var |-> var, at |-> at, nsq |-> nsq]

\* A tensor: its site tags and its blocks.
Tensor(sites, blk) == [sites |-> sites, blk |-> blk]

One == <<1, 1>>

\* Scale multiplying by 1 / normsq: the squared norm is divided by normsq^2.
Scale_noSqrt(blk, normsq) ==
    [blk EXCEPT !.nsq = Frac(blk.nsq[1], blk.nsq[2] * normsq * normsq)]

\* tensor * (1 / np.sqrt(normsq)): the squared norm is divided by normsq.
Scale(blk, normsq) == [blk EXCEPT !.nsq = Frac(blk.nsq[1], blk.nsq[2] * normsq)]

\* Tensor.contract(a, b, ...) of a bond factor with an orthonormal site tensor,
\* or of two neighbouring site tensors: the squared norms multiply.
NormMul(p, q) == Frac(p[1] * q[1], p[2] * q[2])

\* net[{i, sector}].modify(other): the blocks of the tensor tagged i are
\* overwritten in place, its tags stay.
Modify(net, i, blk) ==
    [j \in DOMAIN net |->
        IF j \in net[i].sites THEN [net[j] EXCEPT !.blk = blk] ELSE net[j]]

\* net.replace({i, i + 1}, TensorNetwork([l, r])): the tensors tagged i or
\* i + 1 are removed and the one-site tensors l (at i) and r (at i + 1) added.
ReplaceLR(net, i, lblk, rblk) ==
    [j \in DOMAIN net |->
        IF j = i THEN Tensor({i}, lblk)
        ELSE IF j = i + 1 THEN Tensor({i + 1}, rblk)
        ELSE net[j]]

\* net.replace({i, i + 1}, twod, which='any'): one tensor tagged i and i + 1.
ReplaceTwo(net, i, blk) ==
    [j \in DOMAIN net |->
        IF j \in {i, i + 1} THEN Tensor({i, i + 1}, blk) ELSE net[j]]

\* IsFused never finding the two-site tensor.
IsFused_never(net, i) == FALSE

\* len(net.select({i, i + 1, sector}, which='exact')) != 0
IsFused(net, i) == net[i].sites = {i, i + 1}

\* ------------------------------------------------------- MovingEnvironment
NoEnv == [built |-> FALSE, center |-> -1, dot |-> 0, ket |-> <<>>, bra |-> <<>>]

\* MovingEnvironment(n_sites, center, dot, self._b | self._h | self._k)
NewEnv(c, d, b, k) == [built |-> TRUE, center |-> c, dot |-> d, ket |-> k, bra |-> b]

\* eff_ham.move_to(i)
MoveTo(env, i) == [env EXCEPT !.center = i]

\* eff_ham.prepare_sweep(dot, center)
PrepareSweep(env, d, c) == [env EXCEPT !.dot = d, !.center = c]

\* ------------------------------------------------------------------- log
Op(op, site, arg) == [op |-> op, site |-> site, arg |-> arg]

\* ---------------------------------------------------------------- __init__
\* bond_dims if isinstance(bond_dims, list) else [bond_dims]
AsList(bd) == IF bd[1] = "list" THEN bd[2] ELSE <<bd[2]>>

\* The canonical form assumed when the caller gives none.
DefaultForm(n, d, c) ==
    Repeat("L", Min(c, n)) \o Repeat("C", d) \o Repeat("R", Max(n - c - d, 0))

\* The input MPS: one tensor per site, or (two-dot) one tensor over the two
\* center sites when the caller hands them in already fused.
InitNet(n, d, c, fused) ==
    [j \in 0 .. (n - 1) |->
        IF fused /\ j \in {c, c + 1}
        THEN Tensor({c, c + 1}, Blk("mps", 0, One))
        ELSE Tensor({j}, Blk("mps", 0, One))]

NoFrame == [n_sweeps |-> 0, iw |-> 0, forward |-> TRUE, forward0 |-> TRUE,
            two_dot_to_one_dot |-> -1, bond_dims0 |-> <<>>,
            energies0 |-> <<>>, normsqs0 |-> <<>>, errors0 |-> <<>>,
            energy |-> 0, normsq |-> 0, error |-> 0,
            returned |-> FALSE, ret |-> 0, exc |-> "none"]

NoSweep == [range |-> <<>>, center0 |-> -1, forward |-> TRUE, bond_dim |-> 0,
            beta |-> <<0, 1>>, env_op |-> "none", visited |-> <<>>,
            energies |-> <<>>, normsqs |-> <<>>, errors |-> <<>>]

\* The object __init__ leaves: an MPO of n sites, an MPS with scheme d and
\* center c, the schedule bd, the step b, a contractor with rebuild flag rb,
\* and the canonical form (the default one, or the caller's).
InitObject(n, d, c, bd, b, rb, fused, form) ==
    /\ n_sites = n
    /\ dot = d
    /\ center = c
    /\ bond_dims = AsList(bd)
    /\ beta = b
    /\ rebuild = rb
    /\ canonical_form = form
    /\ energies = <<>>
    /\ normsqs = <<>>
    /\ errors = <<>>
    /\ fwd_attr = "unset"
    /\ ket = InitNet(n, d, c, fused)
    /\ bra = InitNet(n, d, c, fused)
    /\ eff_ham = IF rb THEN NoEnv
                 ELSE NewEnv(c, d, InitNet(n, d, c, fused), InitNet(n, d, c, fused))
    /\ mps = [center |-> c, dot |-> d, form |-> <<>>,
              net |-> InitNet(n, d, c, fused), at |-> 0]
    /\ pc = "idle"
    /\ frame = NoFrame
    /\ sw = NoSweep
    /\ ulog = <<>>
    /\ clock = 0
    /\ bond_dims_arg = bd
    /\ ham_ctr = TRUE
    /\ constructed = IF rb THEN 0 ELSE 1
    /\ switched = FALSE

Init ==
    \E n \in 1 .. MaxSites, d \in {1, 2}, bd \in BondDimInputs,
       b \in Betas, rb \in BOOLEAN, fused \in BOOLEAN :
      \E c \in 0 .. (n - d) :
        /\ (fused => d = 2)
        /\ InitObject(n, d, c, bd, b, rb, fused, DefaultForm(n, d, c))

\* ----------------------------------------------------------- the networks
\* The three places a state tensor is held: self._k, self._b and the
\* '_KET' / '_BRA' entries of the environment network eff_ham().
Store(k, b, env) == [ket |-> k, bra |-> b, env |-> env]

\* The four modify calls that write one tensor to the ket network, the bra
\* network and both entries of the environment.
ModifyAll(st, i, blk) ==
    Store(Modify(st.ket, i, blk), Modify(st.bra, i, blk),
          [st.env EXCEPT !.ket = Modify(@, i, blk), !.bra = Modify(@, i, blk)])

\* The three modify calls after the two-dot compensation: ket network, bra
\* network and the '_KET' entry of the environment.
ModifyKetBraEnvKet(st, i, blk) ==
    Store(Modify(st.ket, i, blk), Modify(st.bra, i, blk),
          [st.env EXCEPT !.ket = Modify(@, i, blk)])

\* The three replace calls that write the split pair l, r back.
ReplaceAllLR(st, i, lblk, rblk) ==
    Store(ReplaceLR(st.ket, i, lblk, rblk), ReplaceLR(st.bra, i, lblk, rblk),
          [st.env EXCEPT !.ket = ReplaceLR(@, i, lblk, rblk),
                         !.bra = ReplaceLR(@, i, lblk, rblk)])

\* Fusing sites i and i + 1 into one two-site tensor in all three networks.
FuseAllTwo(st, i, blk) ==
    Store(ReplaceTwo(st.ket, i, blk), ReplaceTwo(st.bra, i, blk),
          [st.env EXCEPT !.ket = ReplaceTwo(@, i, blk),
                         !.bra = ReplaceTwo(@, i, blk)])

\* eff_ham.move_to(i) on the environment of a store
StoreMoveTo(st, i) == [st EXCEPT !.env = MoveTo(@, i)]

\* ----------------------------------------------------------------- set_mps
NoTensor == Tensor({}, Blk("none", 0, One))

\* net.replace(tags, wfn.set_tags(tags), which='any')
ReplaceAny(net, tags, blk) ==
    [j \in DOMAIN net |->
        IF net[j].sites \cap tags # {}
        THEN (IF j \in tags THEN Tensor(tags, blk) ELSE NoTensor)
        ELSE net[j]]

\* set_mps(tags, wfn): the snapshot is the bra network with wfn at tags, the
\* engine's center and dot, and a copy of the canonical form.
SetMps(b, tags, blk, c, d, form, at) ==
    [center |-> c, dot |-> d, form |-> form, net |-> ReplaceAny(b, tags, blk), at |-> at]

\* ---------------------------------------------------------- update_one_dot
\* FuseLeft with a strict comparison.
FuseLeft_strict(i) == i < n_sites \div 2

\* fuse_left = i <= self.n_sites // 2
FuseLeft(i) == i <= n_sites \div 2

\* The update is at the last site of the sweep direction: the bond factor is
\* multiplied into the site tensor instead of being passed on.
OneDotLastSite(i, forward) ==
    \/ forward /\ i = n_sites - 1
    \/ ~forward /\ i = 0

\* There is a next site in the sweep direction to pass the bond factor to.
OneDotHasNext(i, forward) == IF forward THEN i + 1 < n_sites ELSE i - 1 >= 0

\* FormOneDot leaving 'R' instead of 'L' behind a forward update.
FormOneDot_wrongSide(form, i, forward) ==
    IF forward
    THEN IF OneDotHasNext(i, forward)
         THEN SliceAssign(form, i, i + 2, <<"R", "C">>)
         ELSE [form EXCEPT ![i + 1] = "K"]
    ELSE IF OneDotHasNext(i, forward)
         THEN SliceAssign(form, i - 1, i + 1, <<"C", "R">>)
         ELSE [form EXCEPT ![i + 1] = "S"]

\* FormOneDot keeping the plain marker 'C' at the end of the chain.
FormOneDot_plainEnd(form, i, forward) ==
    IF forward
    THEN IF OneDotHasNext(i, forward)
         THEN SliceAssign(form, i, i + 2, <<"L", "C">>)
         ELSE [form EXCEPT ![i + 1] = "C"]
    ELSE IF OneDotHasNext(i, forward)
         THEN SliceAssign(form, i - 1, i + 1, <<"C", "R">>)
         ELSE [form EXCEPT ![i + 1] = "C"]

\* The canonical form after the one-dot update at i.
FormOneDot(form, i, forward) ==
    IF forward
    THEN IF OneDotHasNext(i, forward)
         THEN SliceAssign(form, i, i + 2, <<"L", "C">>)
         ELSE [form EXCEPT ![i + 1] = "K"]
    ELSE IF OneDotHasNext(i, forward)
         THEN SliceAssign(form, i - 1, i + 1, <<"C", "R">>)
         ELSE [form EXCEPT ![i + 1] = "S"]

\* update_one_dot(i, forward, bond_dim, beta), run on the store st (the
\* environment already moved to i), canonical form and snapshot given; out
\* and back are the contractor's answers; at is the number of this update.
\* The check of the contractor on its first lines is CtrIsNone, taken by
\* the blocking actions; here the contractor is not None.
\* self.center is i here: blocking has just set it.
UpdateOneDot(i, forward, bond_dim, s, out, back, st, form, snap, at) ==
    LET fuse_left == FuseLeft(i)
        log1 == << Op(IF fuse_left THEN "fuse_left" ELSE "fuse_right", i, 0),
                   Op(IF fuse_left THEN "tag_fuse_l" ELSE "tag_fuse_r", i, 0),
                   Op("expo_apply", st.env.center, s) >>
        bra_blk == Blk("bra", at, <<out.normsq, 1>>)
        log2 == IF ~fuse_left /\ forward
                THEN << Op("unfuse_right", i, 0), Op("set_mps", i, 0), Op("fuse_left", i, 0) >>
                ELSE IF fuse_left /\ ~forward
                THEN << Op("unfuse_left", i, 0), Op("set_mps", i, 0), Op("fuse_right", i, 0) >>
                ELSE << >>
        snap1 == IF (~fuse_left /\ forward) \/ (fuse_left /\ ~forward)
                 THEN SetMps(st.bra, {i}, bra_blk, i, dot, form, at)
                 ELSE snap
        \* split_using_density_matrix: one factor orthonormal, the other (the
        \* bond factor) carries the weight that was not discarded.
        bond_nsq == <<out.normsq - out.error, 1>>
        log3 == << Op("split", i, bond_dim),
                   Op(IF forward THEN "unfuse_left" ELSE "unfuse_right", i, 0) >>
        bra_new == IF OneDotLastSite(i, forward)
                   THEN Blk("bra_new", at, NormMul(One, bond_nsq))
                   ELSE Blk("bra_new", at, One)
        st1 == ModifyAll(st, i, bra_new)
        log4 == << Op(IF fuse_left THEN "untag_fuse_l" ELSE "untag_fuse_r", i, 0),
                   Op("write_back", i, 0) >>
        j == IF forward THEN i + 1 ELSE i - 1
        comp == OneDotHasNext(i, forward)
        form1 == FormOneDot(form, i, forward)
        st2 == IF comp THEN StoreMoveTo(st1, j) ELSE st1
        adj_new == Blk("adj_new", at, NormMul(<<back, 1>>, st2.ket[j].blk.nsq))
        st3 == IF comp THEN ModifyAll(st2, j, adj_new) ELSE st1
        log5 == IF comp
                THEN << Op("move_to", j, 0), Op("expo_apply", st2.env.center, Minus(s)),
                        Op("write_adj", j, 0) >>
                ELSE << >>
    IN  [st |-> st3, form |-> form1, mps |-> snap1,
         log |-> log1 \o log2 \o log3 \o log4 \o log5,
         energy |-> out.energy, normsq |-> out.normsq, error |-> out.error]

\* ---------------------------------------------------------- update_two_dot
\* TwoDotAtEnd testing the left dot i against the last site in a forward sweep.
TwoDotAtEnd_leftDot(i, forward) == IF forward THEN i = n_sites - 1 ELSE i = 0

\* TwoDotAtEnd never seeing the end of the chain: always compensating.
TwoDotAtEnd_never(i, forward) == FALSE

\* The two sites of the update touch the end of the chain in the sweep
\* direction: no neighbour is exposed.
TwoDotAtEnd(i, forward) == IF forward THEN i + 1 = n_sites - 1 ELSE i = 0

\* FormTwoDot marking both sites of the pair as the center.
FormTwoDot_bothC(form, i, forward) ==
    [form EXCEPT ![i + 1] = "C", ![i + 2] = "C"]

\* The canonical form after the two-dot update at i, i + 1.
FormTwoDot(form, i, forward) ==
    [form EXCEPT ![i + 1] = IF forward THEN "L" ELSE "C",
                 ![i + 2] = IF ~forward THEN "R" ELSE "C"]

\* update_two_dot(i, forward, bond_dim, beta); parameters as UpdateOneDot.
UpdateTwoDot(i, forward, bond_dim, s, out, back, st, form, snap, at) ==
    LET fused == IsFused(st.ket, i)
        twod_ket == Blk("twod_ket", at, NormMul(st.ket[i].blk.nsq, st.ket[i + 1].blk.nsq))
        st0 == IF fused THEN st ELSE FuseAllTwo(st, i, twod_ket)
        log0 == IF fused THEN << >>
                ELSE << Op("fuse_left", i, 0), Op("fuse_right", i + 1, 0),
                        Op("fuse_two", i, 0) >>
        log1 == << Op("expo_apply", st.env.center, s), Op("set_mps", i, 0) >>
        bra_blk == Blk("bra", at, <<out.normsq, 1>>)
        snap1 == SetMps(st0.bra, {i, i + 1}, bra_blk, i, dot, form, at)
        bond_nsq == <<out.normsq - out.error, 1>>
        log2 == << Op("split", i, bond_dim), Op("unfuse_left", i, 0),
                   Op("unfuse_right", i + 1, 0) >>
        l == Blk("l", at, IF forward THEN One ELSE bond_nsq)
        r == Blk("r", at, IF forward THEN bond_nsq ELSE One)
        form1 == FormTwoDot(form, i, forward)
        st1 == ReplaceAllLR(st0, i, l, r)
        log3 == << Op("write_back", i, 0) >>
        comp == ~TwoDotAtEnd(i, forward)
        st2 == IF comp THEN StoreMoveTo(st1, IF forward THEN i + 1 ELSE i - 1) ELSE st1
        back_blk == Blk(IF forward THEN "r_back" ELSE "l_back", at, <<back, 1>>)
        j == IF forward THEN i + 1 ELSE i
        st3 == IF comp THEN ModifyKetBraEnvKet(st2, j, back_blk) ELSE st1
        log4 == IF comp
                THEN << Op("move_to", st2.env.center, 0),
                        Op("expo_apply", st2.env.center, Minus(s)),
                        Op(IF forward THEN "unfuse_right" ELSE "unfuse_left", j, 0),
                        Op("write_adj", j, 0) >>
                ELSE << >>
    IN  [st |-> st3, form |-> form1, mps |-> snap1,
         log |-> log0 \o log1 \o log2 \o log3 \o log4,
         energy |-> out.energy, normsq |-> out.normsq, error |-> out.error]

\* -------------------------------------------------------------------- solve
\* if len(bond_dims) < n_sweeps: bond_dims.extend([bond_dims[-1]] * (...))
ExtendBondDims(bd, n) ==
    IF Len(bd) < n THEN bd \o Repeat(Last(bd), n - Len(bd)) ELSE bd

\* LoopMore with the loop one sweep short.
LoopMore_short(iw, n) == iw < n - 1

\* for iw in range(n_sweeps): there is a sweep iw to run
LoopMore(iw, n) == iw < n

\* NextDirection keeping the direction.
NextDirection_same(forward) == forward

\* forward = not forward
NextDirection(forward) == ~forward

\* BondDimOf always taking the first entry of the schedule.
BondDimOf_first(bd, iw) == bd[1]

\* self.bond_dims[iw]
BondDimOf(bd, iw) == bd[iw + 1]

\* The center with which the first one-dot sweep starts after the switch.
SwitchCenter(c, n) == IF c # 0 /\ c = n - 2 THEN n - 1 ELSE c

\* SweepEnvOp never constructing: prepare_sweep whatever self.rebuild is.
SweepEnvOp_reuse(rb) == "prepare_sweep"

\* What sweep() does about the environment: if self.rebuild it calls
\* construct_envs(), else eff_ham.prepare_sweep(self.dot, self.center).
SweepEnvOp(rb) == IF rb THEN "construct" ELSE "prepare_sweep"

\* The environment a sweep starts with.
SweepEnv(rb, env, c, d, b, k) ==
    IF SweepEnvOp(rb) = "construct" THEN NewEnv(c, d, b, k)
    ELSE PrepareSweep(env, d, c)

\* The step solve() passes to sweep(): self.beta / 2, exactly.
HalfStep(b) == Frac(b[1], 2 * b[2])

\* range(lo, hi) and range(hi, stop, -1) as lists
RangeUp(lo, hi) == [j \in 1 .. Max(hi - lo, 0) |-> lo + j - 1]
RangeDown(hi, stop) == [j \in 1 .. Max(hi - stop, 0) |-> hi - j + 1]

\* SweepRange stopping one site short of the end of the chain.
SweepRange_short(forward, c, n, d) ==
    IF forward THEN RangeUp(c, n - d) ELSE RangeDown(c, 0)

\* SweepRange leaving out the site the sweep starts at.
SweepRange_skipCenter(forward, c, n, d) ==
    IF forward THEN RangeUp(c + 1, n - d + 1) ELSE RangeDown(c - 1, -1)

\* sweep_range of sweep()
SweepRange(forward, c, n, d) ==
    IF forward THEN RangeUp(c, n - d + 1) ELSE RangeDown(c, -1)

\* SweepResult reporting the discarded weight of the last step.
SweepResult_lastError(se, sn, serr) == <<Last(se), Last(sn), Last(serr)>>

\* What sweep() returns from its three per-step lists.
SweepResult(se, sn, serr) == <<Last(se), Last(sn), MaxOf(serr)>>

\* The site solve() renormalizes: the first 'C', else the first 'K', else
\* the first 'S'; -1 when the form holds none of them.
NormSite(form) ==
    IF Count(form, "C") # 0 THEN Index(form, "C")
    ELSE IF Count(form, "K") # 0 THEN Index(form, "K")
    ELSE IF Count(form, "S") # 0 THEN Index(form, "S")
    ELSE -1

\* solve(n_sweeps, forward, two_dot_to_one_dot) is called: the schedule is
\* extended and the loop entered.  A caller may call solve() again on the
\* same object (MaxSweeps bounds the sweeps of all calls together); a call
\* that continues an earlier one asks for no scheme switch, and none asks
\* for one-dot updates of a two-site tensor that was never split.  A
\* two_dot_to_one_dot of n_sweeps or more never equals iw: it acts as -1.
SolveCall ==
    /\ pc = "idle"
    /\ \E n \in 1 .. MaxSweeps, f \in BOOLEAN, tto \in -1 .. (MaxSweeps - 1) :
        /\ Len(energies) + n <= MaxSweeps
        /\ tto < n
        /\ (energies # << >> => tto = -1)
        /\ (tto = 0 => ~IsFused(ket, center))
        /\ bond_dims' = ExtendBondDims(bond_dims, n)
        /\ frame' = [NoFrame EXCEPT !.n_sweeps = n, !.forward = f, !.forward0 = f,
                                     !.two_dot_to_one_dot = tto,
                                     !.bond_dims0 = bond_dims,
                                     !.energies0 = energies,
                                     !.normsqs0 = normsqs,
                                     !.errors0 = errors]
    /\ pc' = "loop"
    /\ UNCHANGED <<n_sites, dot, center, beta, rebuild, canonical_form, energies,
                   normsqs, errors, fwd_attr, ket, bra, eff_ham, mps, sw, ulog, clock, bond_dims_arg, ham_ctr, constructed, switched>>

\* One pass through the head of the loop of solve() and the prologue of
\* sweep(): the scheme switch, the environment, the sweep range.
SweepBegin ==
    /\ pc = "loop"
    /\ LoopMore(frame.iw, frame.n_sweeps)
    /\ LET switch == frame.two_dot_to_one_dot = frame.iw
       IN IF switch /\ dot # 2
          THEN /\ pc' = "raised"
               /\ frame' = [frame EXCEPT !.exc = "AssertionError"]
               /\ UNCHANGED <<dot, center, eff_ham, sw, constructed, switched>>
          ELSE LET d == IF switch THEN 1 ELSE dot
                   c == IF switch THEN SwitchCenter(center, n_sites) ELSE center
               IN /\ dot' = d
                  /\ center' = c
                  /\ eff_ham' = SweepEnv(rebuild, eff_ham, c, d, bra, ket)
                  /\ constructed' = IF SweepEnvOp(rebuild) = "construct"
                                    THEN constructed + 1 ELSE constructed
                  /\ sw' = [NoSweep EXCEPT
                              !.range = SweepRange(frame.forward, c, n_sites, d),
                              !.center0 = c,
                              !.forward = frame.forward,
                              !.bond_dim = BondDimOf(bond_dims, frame.iw),
                              !.beta = HalfStep(beta),
                              !.env_op = SweepEnvOp(rebuild)]
                  /\ switched' = (switched \/ switch)
                  /\ pc' = "sweep"
                  /\ frame' = frame
    /\ UNCHANGED <<n_sites, bond_dims, beta, rebuild, canonical_form, energies,
                   normsqs, errors, fwd_attr, ket, bra, mps, ulog, clock, bond_dims_arg, ham_ctr>>

\* One iteration of the loop of sweep(): blocking(i, ...) moves the
\* environment to i, sets the center and runs the local update of the scheme.
Blocking(upd, i) ==
    /\ canonical_form' = upd.form
    /\ ket' = upd.st.ket
    /\ bra' = upd.st.bra
    /\ eff_ham' = upd.st.env
    /\ mps' = upd.mps
    /\ center' = i
    /\ ulog' = <<Op("move_to", i, 0)>> \o upd.log
    /\ clock' = clock + 1
    /\ sw' = [sw EXCEPT !.range = Tail(@),
                        !.visited = Append(@, i),
                        !.energies = Append(@, upd.energy),
                        !.normsqs = Append(@, upd.normsq),
                        !.errors = Append(@, upd.error)]
    /\ UNCHANGED <<n_sites, dot, bond_dims, beta, rebuild, energies, normsqs,
                   errors, fwd_attr, pc, frame, bond_dims_arg, ham_ctr, constructed, switched>>

\* ctr = self._h[{i, '_HAM'}].contractor; ctr is None
CtrIsNone(i) == ~ham_ctr

\* What `raise TimeEvolutionError(...)` raises: the module binds no such
\* name (the exception class it defines is TEError), so evaluating the
\* expression raises NameError.
RaiseTimeEvolutionError == "NameError"

\* blocking(i, ...) whose local update raises on its first statements: the
\* environment has been moved to i and the center set, nothing else ran.
BlockingRaises(i) ==
    /\ eff_ham' = MoveTo(eff_ham, i)
    /\ center' = i
    /\ ulog' = <<Op("move_to", i, 0)>>
    /\ pc' = "raised"
    /\ frame' = [frame EXCEPT !.exc = RaiseTimeEvolutionError]
    /\ UNCHANGED <<n_sites, dot, bond_dims, beta, rebuild, canonical_form, energies,
                   normsqs, errors, fwd_attr, ket, bra, mps, sw, clock,
                   bond_dims_arg, ham_ctr, constructed, switched>>

BlockingOneDot ==
    /\ pc = "sweep"
    /\ sw.range # << >>
    /\ dot = 1
    /\ LET i == Head(sw.range)
       IN IF CtrIsNone(i)
          THEN BlockingRaises(i)
          ELSE \E out \in Outcomes, back \in BackNormSqs :
                 Blocking(UpdateOneDot(i, sw.forward, sw.bond_dim, sw.beta, out, back,
                                       Store(ket, bra, MoveTo(eff_ham, i)),
                                       canonical_form, mps, clock + 1), i)

BlockingTwoDot ==
    /\ pc = "sweep"
    /\ sw.range # << >>
    /\ dot # 1
    /\ LET i == Head(sw.range)
       IN IF CtrIsNone(i)
          THEN BlockingRaises(i)
          ELSE \E out \in Outcomes, back \in BackNormSqs :
                 Blocking(UpdateTwoDot(i, sw.forward, sw.bond_dim, sw.beta, out, back,
                                       Store(ket, bra, MoveTo(eff_ham, i)),
                                       canonical_form, mps, clock + 1), i)

\* sweep() returns and solve() records its result and flips the direction.
SweepEnd ==
    /\ pc = "sweep"
    /\ sw.range = << >>
    /\ IF sw.energies = << >>
       THEN /\ pc' = "raised"
            /\ frame' = [frame EXCEPT !.exc = "IndexError"]
            /\ UNCHANGED <<energies, normsqs, errors>>
       ELSE LET res == SweepResult(sw.energies, sw.normsqs, sw.errors)
            IN /\ energies' = Append(energies, res[1])
               /\ normsqs' = Append(normsqs, res[2])
               /\ errors' = Append(errors, res[3])
               /\ frame' = [frame EXCEPT !.energy = res[1], !.normsq = res[2],
                                         !.error = res[3],
                                         !.forward = NextDirection(@)]
               /\ pc' = "renorm"
    /\ UNCHANGED <<n_sites, dot, center, bond_dims, beta, rebuild, canonical_form,
                   fwd_attr, ket, bra, eff_ham, mps, sw, ulog, clock, bond_dims_arg, ham_ctr, constructed, switched>>

\* The end of the loop body of solve(): the center tensor is renormalized.
Renormalize ==
    /\ pc = "renorm"
    /\ LET cc == NormSite(canonical_form)
       IN IF cc = -1
          THEN /\ pc' = "raised"
               /\ frame' = [frame EXCEPT !.exc = RaiseTimeEvolutionError]
               /\ UNCHANGED <<ket, bra, eff_ham>>
          ELSE LET normalized == Scale(ket[cc].blk, frame.normsq)
                   st == ModifyAll(Store(ket, bra, eff_ham), cc, normalized)
               IN /\ ket' = st.ket
                  /\ bra' = st.bra
                  /\ eff_ham' = st.env
                  /\ frame' = [frame EXCEPT !.iw = @ + 1]
                  /\ pc' = "loop"
    /\ UNCHANGED <<n_sites, dot, center, bond_dims, beta, rebuild, canonical_form,
                   energies, normsqs, errors, fwd_attr, mps, sw, ulog, clock, bond_dims_arg, ham_ctr, constructed, switched>>

\* The loop of solve() is over: self.forward is set, the energy returned.
SolveReturn ==
    /\ pc = "loop"
    /\ ~LoopMore(frame.iw, frame.n_sweeps)
    /\ fwd_attr' = frame.forward
    /\ frame' = [frame EXCEPT !.returned = TRUE, !.ret = frame.energy]
    /\ pc' = "idle"
    /\ UNCHANGED <<n_sites, dot, center, bond_dims, beta, rebuild, canonical_form,
                   energies, normsqs, errors, ket, bra, eff_ham, mps, sw, ulog, clock, bond_dims_arg, ham_ctr, constructed, switched>>

Next ==
    \/ SolveCall
    \/ SweepBegin
    \/ BlockingOneDot
    \/ BlockingTwoDot
    \/ SweepEnd
    \/ Renormalize
    \/ SolveReturn

Spec == Init /\ [][Next]_vars

\* ------------------------------------------------- caller configurations
\* A canonical_form argument without any center marker.
CallerForms(n) == {Repeat("L", n), Repeat("R", n)}

\* Objects built with a canonical_form argument or without one.
InitCfg ==
    \E n \in 1 .. MaxSites, d \in {1, 2}, rb \in BOOLEAN :
      \E c \in 0 .. (n - d) :
        \E form \in CallerForms(n) \cup {DefaultForm(n, d, c)} :
          \E b \in Betas :
            InitObject(n, d, c, <<"int", 7>>, b, rb, FALSE, form)

\* The caller takes the contractor off the Hamiltonian network between two
\* solve() calls: self._h.set_contractor(None).  (__init__ itself cannot be
\* given contractor=None: it reads contractor.rebuild.)
DropContractor ==
    /\ pc = "idle"
    /\ ham_ctr
    /\ ham_ctr' = FALSE
    /\ UNCHANGED <<n_sites, dot, center, bond_dims, beta, rebuild, canonical_form,
                   energies, normsqs, errors, fwd_attr, ket, bra, eff_ham, mps,
                   pc, frame, sw, ulog, clock, bond_dims_arg, constructed, switched>>

NextCfg ==
    \/ Next
    \/ DropContractor

SpecCfg == InitCfg /\ [][NextCfg]_vars

\* ================================================================== claims
Markers == {"C", "K", "S"}

\* A sweep of the running or of an earlier solve() has completed and no
\* local update has run since.
AfterSweep ==
    \/ pc = "renorm"
    \/ pc \in {"loop", "idle"} /\ energies # << >>

\* form is L...L, then one non-empty run of markers, then R...R.
OneMarkerRun(form) ==
    \E lo \in 1 .. Len(form) : \E hi \in lo .. Len(form) :
        \A j \in 1 .. Len(form) :
            /\ (j < lo => form[j] = "L")
            /\ (lo <= j /\ j <= hi => form[j] \in Markers)
            /\ (j > hi => form[j] = "R")

\* C1: with the default canonical form and no scheme switch, after every
\* completed sweep canonical_form has one entry per site and is a run of 'L',
\* then exactly one contiguous run of markers ('C', 'K' or 'S'), then a run
\* of 'R'.
C1_OneMarkerRunAfterSweep ==
    (AfterSweep /\ ~switched) =>
        /\ Len(canonical_form) = n_sites
        /\ OneMarkerRun(canonical_form)

\* C1 witness: a backward two-dot sweep that followed a forward one has
\* completed on a chain with an interior site.
C1_Witness ==
    /\ pc = "renorm"
    /\ ~switched
    /\ dot = 2
    /\ n_sites >= 3
    /\ Len(energies) = 2
    /\ ~sw.forward
    /\ canonical_form[1] = "C"

\* Positions in the log of the last blocking step of the calls to op.
LogAt(op) == {k \in 1 .. Len(ulog) : ulog[k].op = op}

\* A blocking step of the running sweep has returned and nothing ran since.
AfterUpdate == pc = "sweep" /\ sw.visited # << >>

\* C2: every local update applies the exponential once with step +beta/2 at
\* its site, then splits and writes back, and then applies it exactly once
\* more, with step -beta/2 and the environment at the newly exposed
\* neighbour, unless the update is at the end of the chain in the sweep
\* direction (one-dot: i = n_sites-1 forward, i = 0 backward; two-dot:
\* i+1 = n_sites-1 forward, i = 0 backward), where it applies it only once.
C2_CompensationAfterSplit ==
    AfterUpdate =>
        LET i == Last(sw.visited)
            f == sw.forward
            atEnd == IF dot = 1
                     THEN (IF f THEN i = n_sites - 1 ELSE i = 0)
                     ELSE (IF f THEN i + 1 = n_sites - 1 ELSE i = 0)
            nb == IF f THEN i + 1 ELSE i - 1
            E == LogAt("expo_apply")
        IN  /\ E # {}
            /\ \E fw \in E, sp \in LogAt("split"), wb \in LogAt("write_back") :
                 /\ \A k \in E : fw <= k
                 /\ fw < sp /\ sp < wb
                 /\ Frac(2 * ulog[fw].arg[1], ulog[fw].arg[2]) = beta
                 /\ ulog[fw].site = i
                 /\ \A k \in E \ {fw} :
                      /\ k > wb
                      /\ Frac(2 * ulog[k].arg[1], ulog[k].arg[2]) = Minus(beta)
                      /\ ulog[k].site = nb
            /\ Cardinality(E) = IF atEnd THEN 1 ELSE 2

\* C2 witness: a two-dot update away from the end of the chain has run its
\* compensating application.
C2_Witness ==
    /\ AfterUpdate
    /\ dot = 2
    /\ \E k \in LogAt("expo_apply") : ulog[k].arg[1] < 0

\* C3: after every local update returns, every site holds the same tensor in
\* the ket network, the bra network and the ket and bra entries of the
\* environment.
C3_CopiesConsistent ==
    AfterUpdate =>
        \A j \in Sites :
            /\ ket[j] = bra[j]
            /\ ket[j] = eff_ham.ket[j]
            /\ ket[j] = eff_ham.bra[j]

\* C4: a sweep calls blocking once per site, in the order center, center+1,
\* ..., n_sites-dot (forward) or center, center-1, ..., 0 (backward), with
\* center the engine's center at sweep start, and each blocking step moves
\* the environment to its site before anything else.
C4_SweepOrder ==
    pc \in {"sweep", "renorm"} =>
        /\ \A k \in 1 .. Len(sw.visited) :
              sw.visited[k] = IF sw.forward THEN sw.center0 + (k - 1)
                              ELSE sw.center0 - (k - 1)
        /\ Len(sw.energies) = Len(sw.visited)
        /\ (sw.range = << >> =>
              /\ sw.visited # << >>
              /\ Last(sw.visited) = IF sw.forward THEN n_sites - dot ELSE 0)
        /\ (AfterUpdate =>
              /\ center = Last(sw.visited)
              /\ Len(ulog) > 1
              /\ ulog[1] = Op("move_to", Last(sw.visited), 0))

\* C4 witness: a backward sweep over three sites or more has completed.
C4_Witness ==
    /\ pc = "renorm"
    /\ ~sw.forward
    /\ Len(sw.visited) >= 3

\* The sites of form (0-based) that carry a marker.
MarkerSites(form) == {j \in 0 .. (Len(form) - 1) : form[j + 1] \in Markers}

\* C5: when solve() switches from two-dot to one-dot at sweep iw, the first
\* one-dot sweep starts at the single site that carries the marker 'C': the
\* center holds 'C' and no other site carries a marker.
C5_SwitchStartsAtMarker ==
    (pc = "sweep" /\ sw.visited = << >> /\ frame.two_dot_to_one_dot = frame.iw) =>
        /\ dot = 1
        /\ canonical_form[center + 1] = "C"
        /\ MarkerSites(canonical_form) = {center}

\* solve() is running or has returned normally.
InOrAfterSolve == pc \in {"loop", "sweep", "renorm"} \/ (pc = "idle" /\ frame.returned)

\* Sweeps of the running solve() that have completed.
SweepsDone == frame.iw + (IF pc = "renorm" THEN 1 ELSE 0)

\* s extends s0 by exactly k entries.
ExtendsBy(s, s0, k) == Len(s) = Len(s0) + k /\ SubSeq(s, 1, Len(s0)) = s0

\* C6: solve(n_sweeps) appends one entry per completed sweep to energies,
\* normsqs and errors, after the entries of earlier calls and in sweep
\* order (the entry is the result of the sweep just run); when it returns,
\* exactly n_sweeps sweeps have run and it returns energies[-1].
C6_SolveRunsNSweeps ==
    /\ InOrAfterSolve =>
          /\ SweepsDone <= frame.n_sweeps
          /\ ExtendsBy(energies, frame.energies0, SweepsDone)
          /\ ExtendsBy(normsqs, frame.normsqs0, SweepsDone)
          /\ ExtendsBy(errors, frame.errors0, SweepsDone)
    /\ pc = "renorm" =>
          /\ Last(energies) = Last(sw.energies)
          /\ Last(normsqs) = Last(sw.normsqs)
          /\ \E k \in 1 .. Len(sw.errors) : Last(errors) = sw.errors[k]
    /\ (pc = "idle" /\ frame.returned) =>
          /\ SweepsDone = frame.n_sweeps
          /\ frame.ret = Last(energies)

\* C6 witness: a solve() call that continued an earlier one has returned.
C6_Witness ==
    /\ pc = "idle"
    /\ frame.returned
    /\ frame.energies0 # << >>
    /\ Len(energies) > Len(frame.energies0)

\* C7: sweep iw runs with bond dimension S[min(iw, len(S) - 1)], S being the
\* schedule as it was when solve() was called (for the first call the list
\* given to __init__, or the one-element list of the int given); the
\* entries of S stay in place in self.bond_dims.
C7_BondDimSchedule ==
    InOrAfterSolve =>
        LET S == frame.bond_dims0
        IN  /\ Len(S) >= 1
            /\ (frame.energies0 = << >> =>
                  S = IF bond_dims_arg[1] = "int" THEN <<bond_dims_arg[2]>>
                      ELSE bond_dims_arg[2])
            /\ Len(bond_dims) >= Len(S)
            /\ SubSeq(bond_dims, 1, Len(S)) = S
            /\ (pc \in {"sweep", "renorm"} =>
                  /\ sw.bond_dim = S[Min(frame.iw, Len(S) - 1) + 1]
                  /\ (sw.visited # << >> =>
                        /\ LogAt("split") # {}
                        /\ \A k \in LogAt("split") : ulog[k].arg = sw.bond_dim))

\* C7 witness: the second sweep of a call runs a local update with the second
\* entry of a two-entry schedule.
C7_Witness ==
    /\ AfterUpdate
    /\ bond_dims_arg[1] = "list"
    /\ frame.iw = 1
    /\ Len(frame.bond_dims0) = 2
    /\ sw.bond_dim # frame.bond_dims0[1]

\* C8: sweep() returns the energy and normsq of its last blocking step and
\* the maximum of the discarded weights of all its blocking steps.
C8_SweepReturnsLastAndMax ==
    pc = "renorm" =>
        /\ frame.energy = Last(sw.energies)
        /\ frame.normsq = Last(sw.normsqs)
        /\ \E k \in 1 .. Len(sw.errors) : frame.error = sw.errors[k]
        /\ \A k \in 1 .. Len(sw.errors) : sw.errors[k] <= frame.error

\* C8 witness: a sweep has returned whose largest discarded weight is not
\* that of its last step.
C8_Witness ==
    /\ pc = "renorm"
    /\ Len(sw.errors) >= 2
    /\ Last(sw.errors) < frame.error

\* forward flipped k times
Flipped(forward, k) == IF k % 2 = 1 THEN ~forward ELSE forward

\* C9: sweep iw of solve() runs forward iff the initial flag XOR (iw odd),
\* and on return self.forward is the initial flag flipped n_sweeps times.
C9_DirectionsAlternate ==
    /\ pc \in {"sweep", "renorm"} => sw.forward = Flipped(frame.forward0, frame.iw)
    /\ (pc = "idle" /\ frame.returned) =>
          fwd_attr = Flipped(frame.forward0, frame.n_sweeps)

\* C9 witness: the second sweep of a call that started backward has run a
\* forward update.
C9_Witness ==
    /\ AfterUpdate
    /\ frame.iw = 1
    /\ ~frame.forward0
    /\ sw.forward

\* The site the claim names: the first 'C', else the first 'K', else the
\* first 'S' (form holds one of them).
FirstOf(form, x) == CHOOSE j \in 0 .. (Len(form) - 1) :
                        form[j + 1] = x /\ \A m \in 0 .. (j - 1) : form[m + 1] # x
HasSym(form, x) == \E j \in 1 .. Len(form) : form[j] = x
ClaimedNormSite(form) ==
    IF HasSym(form, "C") THEN FirstOf(form, "C")
    ELSE IF HasSym(form, "K") THEN FirstOf(form, "K")
    ELSE FirstOf(form, "S")

\* C10: the renormalization step after a sweep divides the squared norm of
\* the tensor at cc (first 'C', else first 'K', else first 'S') by the
\* normsq of that sweep, writes the same tensor to the ket network, the bra
\* network and both entries of the environment, and changes no other site
\* tensor and not canonical_form.
C10_RenormalizeOneSite ==
    [][(pc = "renorm" /\ pc' = "loop") =>
          LET cc == ClaimedNormSite(canonical_form)
              old == ket[cc].blk
              new == ket'[cc].blk
          IN  /\ new.nsq[1] * old.nsq[2] * Last(normsqs) = old.nsq[1] * new.nsq[2]
              /\ new.var = old.var /\ new.at = old.at
              /\ ket'[cc].sites = {cc}
              /\ bra'[cc] = ket'[cc]
              /\ eff_ham'.ket[cc] = ket'[cc]
              /\ eff_ham'.bra[cc] = ket'[cc]
              /\ \A j \in Sites \ {cc} :
                    /\ ket'[j] = ket[j]
                    /\ bra'[j] = bra[j]
                    /\ eff_ham'.ket[j] = eff_ham.ket[j]
                    /\ eff_ham'.bra[j] = eff_ham.bra[j]
              /\ canonical_form' = canonical_form]_vars

\* C10 witness: the renormalization has scaled a center tensor of squared
\* norm 2 (normsq 3, discarded weight 1) to squared norm 2/3, in all copies.
C10_Witness ==
    /\ pc = "loop"
    /\ frame.iw >= 1
    /\ \E j \in Sites :
          /\ canonical_form[j + 1] \in Markers
          /\ ket[j].blk.nsq = <<2, 3>>
          /\ bra[j] = ket[j]
          /\ eff_ham.bra[j] = ket[j]

\* The renormalization of a completed sweep has run and nothing ran since.
AfterRenormalize == pc \in {"loop", "idle"} /\ energies # << >> /\ frame.iw >= 1

\* C11: after the renormalization step of every completed sweep the
\* orthogonality-center tensor (the one at the first 'C', else 'K', else 'S')
\* has squared norm 1: the normsq divided by is the squared norm of the
\* stored center tensor.
C11_CenterNormOne ==
    AfterRenormalize =>
        ket[ClaimedNormSite(canonical_form)].blk.nsq = One

\* A blocking step was due and its local update raised.
UpdateFailed == pc = "raised" /\ sw.range # << >>

\* C12: a local update requested while the Hamiltonian tensor has no
\* contractor fails with the module's exception class TEError, and fails
\* before any fuse, exponential application, split or tensor modification:
\* the blocking step has called nothing but the environment's move_to.
C12_MissingContractorRaisesTEError ==
    (UpdateFailed /\ ~ham_ctr) =>
        /\ frame.exc = "TEError"
        /\ \A k \in 1 .. Len(ulog) : ulog[k].op = "move_to"

\* C13 (its case does not arise): whatever canonical_form the caller gave,
\* the form holds a marker 'C', 'K' or 'S' whenever a sweep has completed,
\* because the last local update of the sweep wrote one; solve() never
\* reaches the raise that follows its search for the marker.
C13_MarkerAfterEverySweep ==
    /\ pc = "renorm" => NormSite(canonical_form) # -1
    /\ pc = "raised" => UpdateFailed \/ frame.exc = "AssertionError"

\* A sweep has completed on an object whose caller gave a form without any
\* marker.
C13_CallerFormSwept ==
    /\ pc = "renorm"
    /\ \E j \in 1 .. n_sites : canonical_form[j] \notin Markers \cup {"L"}
    /\ \E j \in 1 .. n_sites : canonical_form[j] = "R" /\ j < NormSite(canonical_form) + 1

\* The sites (left dots) the completed sweep has to visit for a full pass.
AllDots == 0 .. (n_sites - dot)

\* The completed sweep visited every left dot exactly once.
FullPass ==
    /\ Len(sw.visited) = Cardinality(AllDots)
    /\ {sw.visited[k] : k \in 1 .. Len(sw.visited)} = AllDots

\* C14 as claimed: every sweep executed by solve() is one full pass over the
\* chain: each site (one-dot) or adjacent pair (two-dot) is updated by
\* exactly one blocking step of the sweep, the first sweep and the first
\* sweep after a scheme switch included.
C14_EverySweepFullPass == pc = "renorm" => FullPass

\* C14 amended: a sweep updates each site (pair) between its starting center
\* and the end of the chain in its direction exactly once and nothing else;
\* it is a full pass exactly when it starts at the opposite end (0 forward,
\* n_sites-dot backward), which is the case for every sweep of a solve() call
\* after its first, except a backward first one-dot sweep after a switch on
\* a chain of two sites.
C14_PassFromCenter ==
    pc = "renorm" =>
        LET V == {sw.visited[k] : k \in 1 .. Len(sw.visited)}
        IN  /\ Cardinality(V) = Len(sw.visited)
            /\ V = IF sw.forward THEN sw.center0 .. (n_sites - dot)
                   ELSE 0 .. sw.center0
            /\ (FullPass <=> sw.center0 = IF sw.forward THEN 0 ELSE n_sites - dot)
            /\ ((frame.iw >= 1 /\ ~(frame.two_dot_to_one_dot = frame.iw
                                     /\ n_sites = 2 /\ ~sw.forward))
                  => FullPass)

\* C14 witness: the forward first one-dot sweep after a switch has passed
\* over all of a chain of three sites or more.
C14_Witness ==
    /\ pc = "renorm"
    /\ frame.iw = 1
    /\ frame.two_dot_to_one_dot = 1
    /\ sw.forward
    /\ n_sites >= 3
    /\ FullPass

\* C15 as claimed: after update_two_dot(i, ...) returns, canonical_form[i]
\* and canonical_form[i+1] both belong to the marker run: the run still
\* spans the two sites of the update.
C15_TwoDotRunSpansTwo ==
    (AfterUpdate /\ dot = 2) =>
        LET i == Last(sw.visited)
        IN  /\ canonical_form[i + 1] \in Markers
            /\ canonical_form[i + 2] \in Markers

\* C15 amended: after update_two_dot(i, forward, ...) returns, the pair is
\* labelled 'L','C' (forward) or 'C','R' (backward): one site of the pair
\* carries the marker, the site the sweep moves towards, and with the
\* default initial form it is the only marker of the chain.
C15_TwoDotLeavesOneMarker ==
    (AfterUpdate /\ dot = 2) =>
        LET i == Last(sw.visited)
        IN  /\ canonical_form[i + 1] = IF sw.forward THEN "L" ELSE "C"
            /\ canonical_form[i + 2] = IF sw.forward THEN "C" ELSE "R"
            /\ MarkerSites(canonical_form) = {IF sw.forward THEN i + 1 ELSE i}

\* C15 witness: a backward two-dot update away from the left end has
\* returned, leaving 'C','R' on its pair.
C15_Witness ==
    /\ AfterUpdate
    /\ dot = 2
    /\ ~sw.forward
    /\ Last(sw.visited) >= 1
    /\ canonical_form[Last(sw.visited) + 1] = "C"
    /\ canonical_form[Last(sw.visited) + 2] = "R"

\* C16: a one-dot update at site i of a form whose single marker is at i
\* moves the center by one site: forward at i < n_sites-1 it leaves 'L' at i
\* and 'C' at i+1, backward at i > 0 it leaves 'R' at i and 'C' at i-1; at
\* the terminal site the marker stays and becomes 'K' (forward, i =
\* n_sites-1) or 'S' (backward, i = 0); every other symbol is unchanged.
C16_OneDotMovesByOne ==
    [][(/\ pc = "sweep" /\ pc' = "sweep"
        /\ dot = 1
        /\ sw.range # << >>
        /\ MarkerSites(canonical_form) = {Head(sw.range)}) =>
          LET i == Head(sw.range)
              f == sw.forward
              expected ==
                [j \in 1 .. n_sites |->
                    IF f /\ i < n_sites - 1
                    THEN (IF j = i + 1 THEN "L" ELSE IF j = i + 2 THEN "C"
                          ELSE canonical_form[j])
                    ELSE IF f
                    THEN (IF j = i + 1 THEN "K" ELSE canonical_form[j])
                    ELSE IF i > 0
                    THEN (IF j = i + 1 THEN "R" ELSE IF j = i THEN "C"
                          ELSE canonical_form[j])
                    ELSE (IF j = i + 1 THEN "S" ELSE canonical_form[j])]
          IN  canonical_form' = expected]_vars

\* C16 witness: the second update of a backward one-dot sweep has moved the
\* single marker from its site to the site on its left.
C16_Witness ==
    /\ AfterUpdate
    /\ dot = 1
    /\ ~sw.forward
    /\ Len(sw.visited) >= 2
    /\ Last(sw.visited) >= 1
    /\ canonical_form[Last(sw.visited) + 1] = "R"
    /\ MarkerSites(canonical_form) = {Last(sw.visited) - 1}

\* Every site of net is covered by exactly one tensor: the tensor held at a
\* site carries the site's tag, and is the tensor held at every site it tags.
Covered(net) ==
    \A j \in DOMAIN net :
        /\ j \in net[j].sites
        /\ \A k \in net[j].sites : k \in DOMAIN net /\ net[k] = net[j]

\* Sites i and i + 1 of net are each covered by a one-site tensor.
Unfused(net, i) == net[i].sites = {i} /\ net[i + 1].sites = {i + 1}

\* C17: update_two_dot(i, ...) fuses sites i and i+1 exactly when the ket
\* network holds no tensor tagged with both, and when it returns sites i and
\* i+1 are each covered by a tensor of their own in the ket network, the bra
\* network and the ket and bra entries of the environment; after every step
\* every site of every sector is covered by exactly one tensor.
C17_FusionTransient ==
    [][/\ (pc = "sweep" /\ pc' = "sweep" /\ dot = 2 /\ sw.range # << >>) =>
              LET i == Head(sw.range)
              IN  /\ (ket[i].sites = {i, i + 1}) <=> (LogAt("fuse_two")' = {})
                  /\ Unfused(ket', i)
                  /\ Unfused(bra', i)
                  /\ Unfused(eff_ham'.ket, i)
                  /\ Unfused(eff_ham'.bra, i)
       /\ Covered(ket') /\ Covered(bra')
       /\ (eff_ham'.built => Covered(eff_ham'.ket) /\ Covered(eff_ham'.bra))]_vars

\* C17 witness: the first two-dot update of an MPS handed in with its two
\* center sites already fused has returned without fusing, and left them
\* split.
C17_Witness ==
    /\ AfterUpdate
    /\ dot = 2
    /\ clock = 1
    /\ LogAt("fuse_two") = {}
    /\ Unfused(ket, Last(sw.visited))
    /\ Unfused(eff_ham.bra, Last(sw.visited))

\* Centers the environment may be asked for under scheme d.
ValidCenters(d) == 0 .. (IF d = 2 THEN n_sites - 2 ELSE n_sites - 1)

\* C18: started with n_sites >= dot and the center in [0, n_sites-dot], the
\* engine asks the environment only for centers inside [0, n_sites-1], and
\* inside [0, n_sites-2] while dot = 2: at sweep start (the constructor's or
\* prepare_sweep's center), in blocking and in the compensation step (the
\* move_to calls); every sweep range is non-empty, so every sweep runs at
\* least one local update and returns normally.
C18_CentersInRange ==
    /\ eff_ham.built =>
          /\ eff_ham.dot = dot
          /\ eff_ham.center \in ValidCenters(dot)
    /\ \A k \in LogAt("move_to") : ulog[k].site \in ValidCenters(dot)
    /\ (pc = "sweep" /\ sw.visited = << >>) =>
          /\ sw.range # << >>
          /\ eff_ham.center = center
          /\ center \in ValidCenters(dot)
    /\ pc = "renorm" => sw.visited # << >>
    /\ frame.exc # "IndexError"

\* C18 witness: a forward two-dot update next to the last pair has moved the
\* environment to the right dot for its compensation.
C18_Witness ==
    /\ AfterUpdate
    /\ dot = 2
    /\ sw.forward
    /\ Last(sw.visited) = n_sites - 3
    /\ eff_ham.center = n_sites - 2
    /\ Cardinality(LogAt("move_to")) = 2

\* Sweeps that sweep() has been called for so far on this object.
SweepsBegun == Len(energies) + (IF pc = "sweep" THEN 1 ELSE 0)

\* C19: with rebuild true no environment is built in __init__ and every
\* sweep constructs a fresh one from the current networks, center and dot
\* before its first blocking step; with rebuild false the environment is
\* constructed exactly once, in __init__, and every sweep calls
\* prepare_sweep(dot, center) on it; either way an environment exists
\* before the first blocking step of every sweep.
C19_EnvFollowsRebuild ==
    /\ rebuild =>
          /\ constructed = SweepsBegun
          /\ (SweepsBegun = 0 => ~eff_ham.built)
          /\ (pc \in {"sweep", "renorm"} => sw.env_op = "construct")
          /\ ((pc = "sweep" /\ sw.visited = << >>) =>
                 eff_ham = NewEnv(center, dot, bra, ket))
    /\ ~rebuild =>
          /\ constructed = 1
          /\ eff_ham.built
          /\ (pc \in {"sweep", "renorm"} => sw.env_op = "prepare_sweep")
          /\ ((pc = "sweep" /\ sw.visited = << >>) =>
                 /\ eff_ham.center = center
                 /\ eff_ham.dot = dot)
    /\ pc = "sweep" => eff_ham.built

\* C19 witness: the second sweep of an object with rebuild true starts on
\* an environment constructed from the networks the first sweep left.
C19_Witness ==
    /\ rebuild
    /\ pc = "sweep"
    /\ sw.visited = << >>
    /\ constructed = 2
    /\ eff_ham.ket = ket
    /\ \E j \in Sites : ket[j].blk.at > 0

\* Positions in the log of the last blocking step of the calls to op at
\* site i.
CallsAt(op, i) == {k \in LogAt(op) : ulog[k].site = i}

\* The fuse and unfuse calls at site i pair up: they are as many, and up to
\* and including each unfuse call the unfuse calls do not outnumber the fuse
\* calls before it.
Matched(fuse, unfuse, i) ==
    LET Fs == CallsAt(fuse, i)
        Us == CallsAt(unfuse, i)
    IN  /\ Cardinality(Fs) = Cardinality(Us)
        /\ \A u \in Us :
              Cardinality({v \in Us : v <= u}) <= Cardinality({f \in Fs : f < u})

\* The side ("fuse_left" or "fuse_right") of the last fuse call before
\* position p of the log.
FusedSideAt(p) ==
    LET F == {k \in 1 .. (p - 1) : ulog[k].op \in {"fuse_left", "fuse_right"}}
        last == CHOOSE k \in F : \A m \in F : m <= k
    IN  ulog[last].op

\* C20: update_one_dot(i, ...) first fuses on the left iff i <= n_sites // 2,
\* else on the right; when the density matrix split runs the state is fused
\* on the left iff the sweep is forward; every fuse call at i is matched by
\* one later unfuse call of the same side at i, all of them before the
\* write-back, and the fuse tag put on the Hamiltonian tensor is taken off
\* again before the write-back.
C20_OneDotFuseSides ==
    (AfterUpdate /\ dot = 1) =>
        LET i == Last(sw.visited)
            F == LogAt("fuse_left") \cup LogAt("fuse_right")
            U == LogAt("unfuse_left") \cup LogAt("unfuse_right")
            first == CHOOSE k \in F : \A m \in F : k <= m
        IN  /\ F # {}
            /\ (ulog[first].op = "fuse_left") <=> (2 * i <= n_sites)
            /\ \A k \in F \cup U : ulog[k].site = i
            /\ \E sp \in LogAt("split") :
                  FusedSideAt(sp) = IF sw.forward THEN "fuse_left" ELSE "fuse_right"
            /\ Matched("fuse_left", "unfuse_left", i)
            /\ Matched("fuse_right", "unfuse_right", i)
            /\ \E wb \in LogAt("write_back") :
                  /\ \A k \in F \cup U : k < wb
                  /\ \E side \in {"l", "r"} :
                        \E t \in LogAt("tag_fuse_" \o side), u \in LogAt("untag_fuse_" \o side) :
                            /\ t < u /\ u < wb
                            /\ first < t
                            /\ ulog[t].site = i /\ ulog[u].site = i
                            /\ LogAt("tag_fuse_l") \cup LogAt("tag_fuse_r") = {t}
                            /\ LogAt("untag_fuse_l") \cup LogAt("untag_fuse_r") = {u}
            /\ ket[i].sites = {i}

\* C20 witness: a forward one-dot update at a site right of the middle has
\* returned: fused on the right first, unfused, fused on the left for the
\* split and unfused again.
C20_Witness ==
    /\ AfterUpdate
    /\ dot = 1
    /\ sw.forward
    /\ 2 * Last(sw.visited) > n_sites
    /\ Cardinality(LogAt("unfuse_right")) = 1
    /\ Cardinality(LogAt("unfuse_left")) = 1

\* C21: after every completed sweep the snapshot self.mps has been refreshed
\* by the last local update of the sweep: that blocking step called set_mps,
\* so self.mps.center is the last site visited and self.mps.dot is the
\* current scheme.
C21_SnapshotRefreshedBySweep ==
    pc = "renorm" =>
        /\ LogAt("set_mps") # {}
        /\ mps.at = clock
        /\ mps.center = Last(sw.visited)
        /\ mps.dot = dot

====
